---- MODULE Spec2Model ----
(***************************************************************************)
(* yt-dlp GUI (youtube-download-gui.py): the command builder, the safe     *)
(* rename of the post-download reconciler, and the download worker with    *)
(* its stop button.                                                        *)
(*                                                                         *)
(* The specifications share the variables:                                 *)
(*   SpecBuild   the command builder applied to every configuration        *)
(*   SpecRename  safe_rename_media applied to a directory                  *)
(*   SpecCleanup cleanup_and_rename applied to a directory                 *)
(*   Spec        the UI thread, the worker threads and the child processes *)
(*   SpecRun     one download, the worker thread and the Tk main loop      *)
(*               scheduled fairly                                          *)
(*   SpecUi      one download of one URL, the options changed meanwhile    *)
(*   SpecCookies generate_cookies                                          *)
(***************************************************************************)
EXTENDS Naturals, Integers, Sequences, FiniteSets, TLC

VARIABLES
    ui,            \* the tk variables read by the builder and the reconciler
    env,           \* what the builder asks the system: shutil.which, os.path.exists
    url_entry,     \* text of the URL entry
    command_text,  \* the command preview, an argument vector
    fs,            \* the output directory: path -> what the file holds, or Absent
    call,          \* the last call of safe_rename_media: arguments and outcome
    stat,          \* os.stat of the directory's entries: path -> mtime and size
    stop_requested,    \* the threading.Event
    current_proc,      \* the global process handle: a pid, or NoProc for None
    controls_enabled,  \* download button normal and stop button disabled
    after_queue,       \* callbacks handed to root.after(0, ...), oldest first
    workers,           \* the download_worker threads, in the order started
    procs,             \* the downloader child processes, by pid
    dialogs            \* the error windows shown so far

buildVars == <<ui, env, url_entry, command_text>>
renameVars == <<fs, call, stat>>
workerVars == <<stop_requested, current_proc, controls_enabled, after_queue,
                workers, procs, dialogs>>
vars == <<ui, env, url_entry, command_text, fs, call, stat, stop_requested,
          current_proc, controls_enabled, after_queue, workers, procs, dialogs>>

(***************************************************************************)
(* Strings.  TLC strings are atomic, so the conversions of the source are  *)
(* tabulated on the values the model draws.                                *)
(***************************************************************************)
\* str.strip(): whitespace-only text becomes empty, padding is removed
Strip(s) ==
    CASE s = " " -> ""
      [] s = " chrome " -> "chrome"
      [] OTHER -> s

\* str.lower()
Lower(s) ==
    CASE s = "MP3" -> "mp3"
      [] s = "M4A" -> "m4a"
      [] s = "MP4" -> "mp4"
      [] s = "MKV" -> "mkv"
      [] s = "Firefox" -> "firefox"
      [] OTHER -> s

\* fmt.replace("p", "")
ReplaceP(s) ==
    CASE s = "1080p" -> "1080"
      [] s = "720p" -> "720"
      [] s = "480p" -> "480"
      [] s = "360p" -> "360"
      [] s = "240p" -> "240"
      [] OTHER -> s

\* Python's `a or b` on strings
OrElse(a, b) == IF a # "" THEN a ELSE b

Has(cmd, s) == \E i \in 1..Len(cmd) : cmd[i] = s
Count(cmd, s) == Cardinality({i \in 1..Len(cmd) : cmd[i] = s})
\* s immediately followed by t
HasPair(cmd, s, t) == \E i \in 1..(Len(cmd) - 1) : cmd[i] = s /\ cmd[i + 1] = t

(***************************************************************************)
(* Options and defaults                                                    *)
(***************************************************************************)
VIDEO_FORMATS == {"1080p", "720p", "480p", "360p", "240p", "best"}
AUDIO_FORMATS == {"mp3", "aac", "flac", "wav", "m4a", "opus"}
RECODE_OPTIONS == {"mp4", "mkv", "webm"}
COOKIE_FILE == "~/.yt-dlp-cookies.txt"
DEFAULT_OUTDIR == "~/Downloads"

(***************************************************************************)
(* The values the model draws for each tk variable.  The comboboxes are    *)
(* read-only, but every variable starts from the config file, whose lines  *)
(* are arbitrary text: a value outside the offered list, an upper-case or  *)
(* an empty one can be there.                                              *)
(***************************************************************************)
FormatValues == {"720p", "best", "Audio", "4k"}
AudioFormatValues == {"mp3", "aac", "opus", "wav", "MP3"}
AudioQualityValues == {"0", ""}
RecodeValues == {"mp4", "mkv", "webm", ""}
UserAgentValues == {"", "UA"}
CookieFileValues == {"", " ", "/c.txt"}
CookieBrowserValues == {"", "chrome"}
UrlValues == {"", "X"}

UiSpace ==
    [ outdir_var : {"/dl"},
      format_var : FormatValues,
      audio_format_var : AudioFormatValues,
      audio_quality_var : AudioQualityValues,
      recode_enabled : BOOLEAN,
      recode_var : RecodeValues,
      user_agent_var : UserAgentValues,
      embed_thumb_var : BOOLEAN,
      add_metadata_var : BOOLEAN,
      force_overwrite_var : BOOLEAN,
      no_playlist_var : BOOLEAN,
      use_cookies_var : BOOLEAN,
      cookie_file_var : CookieFileValues,
      cookie_browser_var : CookieBrowserValues ]

EnvSpace == [ ffmpeg : BOOLEAN, ffprobe : BOOLEAN, cookie_file_exists : BOOLEAN ]

(***************************************************************************)
(* Command builder                                                         *)
(***************************************************************************)
format_filter(fmt) ==
    IF fmt = "best" THEN "bestvideo+bestaudio/best"
    ELSE IF fmt \in VIDEO_FORMATS
         THEN "bestvideo[height<=" \o ReplaceP(fmt) \o "]+bestaudio/best"
         ELSE "bestaudio"

\* mutant: the aac/opus mapping forgotten
desired_audio_ext_identity(fmt) == fmt

desired_audio_ext(fmt) ==
    CASE fmt = "aac" -> "m4a"
      [] fmt = "opus" -> "webm"
      [] OTHER -> fmt

\* lines 139-146: overwrite, metadata and user agent
BaseArgs(u) ==
    <<"yt-dlp", "-o", OrElse(u.outdir_var, DEFAULT_OUTDIR) \o "/%(title)s.%(ext)s">>
    \o (IF u.force_overwrite_var THEN <<"--force-overwrites">> ELSE <<>>)
    \o (IF u.add_metadata_var THEN <<"--add-metadata">> ELSE <<>>)
    \o (IF Strip(u.user_agent_var) # ""
        THEN <<"--user-agent", Strip(u.user_agent_var)>> ELSE <<>>)

\* lines 148-168: the format-specific options
RecodeArgsFor(tgt) ==
    <<"--recode-video", tgt>>
    \o (IF tgt = "mp4" THEN <<"--postprocessor-args", "ffmpeg:-c:v libx264">>
        ELSE IF tgt = "webm" THEN <<"--postprocessor-args", "ffmpeg:-c:v libvpx-vp9">>
        ELSE <<>>)

\* mutant: the recode directive emitted whether or not recoding is enabled
RecodeArgs_always(u) ==
    IF u.recode_var # "" THEN RecodeArgsFor(u.recode_var) ELSE <<>>

RecodeArgs(u) ==
    IF u.recode_enabled /\ u.recode_var # "" THEN RecodeArgsFor(u.recode_var) ELSE <<>>

AudioArgs(u) ==
    <<"-x", "--audio-format", Lower(u.audio_format_var)>>
    \o (IF u.audio_quality_var # ""
        THEN <<"--audio-quality", u.audio_quality_var>> ELSE <<>>)

VideoArgs(u) ==
    (IF format_filter(u.format_var) # ""
     THEN <<"-f", format_filter(u.format_var)>> ELSE <<>>)
    \o RecodeArgs(u)

\* mutant: the video options emitted in Audio mode as well
FormatArgs_both(u) ==
    IF u.format_var = "Audio" THEN AudioArgs(u) \o VideoArgs(u) ELSE VideoArgs(u)

FormatArgs(u) ==
    IF u.format_var = "Audio" THEN AudioArgs(u) ELSE VideoArgs(u)

\* mutant: the generated file takes precedence over the explicit one
CookieArgs_generated_first(u, e) ==
    IF ~u.use_cookies_var THEN <<>>
    ELSE IF e.cookie_file_exists
         THEN <<"--cookies", COOKIE_FILE>>
    ELSE IF Strip(u.cookie_file_var) # ""
         THEN <<"--cookies", Strip(u.cookie_file_var)>>
    ELSE <<"--cookies-from-browser", OrElse(Strip(u.cookie_browser_var), "firefox")>>

\* lines 170-182: explicit file, then the generated file, then the browser
CookieArgs(u, e) ==
    IF ~u.use_cookies_var THEN <<>>
    ELSE IF Strip(u.cookie_file_var) # ""
         THEN <<"--cookies", Strip(u.cookie_file_var)>>
    ELSE IF e.cookie_file_exists
         THEN <<"--cookies", COOKIE_FILE>>
    ELSE <<"--cookies-from-browser", OrElse(Strip(u.cookie_browser_var), "firefox")>>

\* lines 184-189
PlaylistArgs(u) == IF u.no_playlist_var THEN <<"--no-playlist">> ELSE <<>>

\* lines 191-210: embed only where it is safe, else write the thumbnail
EmbedAudioContainers == {"mp3", "m4a", "flac", "ogg", "opus"}
safe_video_targets == {"mp4", "mkv", "m4v", "mov"}
WriteThumbArgs == <<"--write-thumbnail", "--convert-thumbnails", "png">>

AudioThumbArgs(u) ==
    IF desired_audio_ext(Lower(u.audio_format_var)) \in EmbedAudioContainers
    THEN <<"--embed-thumbnail">>
    ELSE WriteThumbArgs

\* mutant: ffmpeg's presence not asked
VideoThumbArgs_no_ffmpeg_test(u, e) ==
    IF u.recode_enabled /\ u.recode_var \in safe_video_targets
    THEN <<"--embed-thumbnail">>
    ELSE WriteThumbArgs

VideoThumbArgs(u, e) ==
    IF u.recode_enabled /\ u.recode_var \in safe_video_targets /\ e.ffmpeg
    THEN <<"--embed-thumbnail">>
    ELSE WriteThumbArgs

ThumbArgs(u, e) ==
    IF ~u.embed_thumb_var THEN <<>>
    ELSE IF u.format_var = "Audio" THEN AudioThumbArgs(u)
    ELSE VideoThumbArgs(u, e)

\* build_command_for_url, reading the tk variables u and the system e
BuildCommand(u, e, url) ==
    BaseArgs(u) \o FormatArgs(u) \o CookieArgs(u, e) \o PlaylistArgs(u)
    \o ThumbArgs(u, e) \o (IF url # "" THEN <<url>> ELSE <<>>)

build_command_for_url(url) == BuildCommand(ui, env, url)

(***************************************************************************)
(* The output directory.  A path is <<base, ext>>, the file base.ext; a     *)
(* file holds one audio stream, named by its codec ("" when ffprobe finds   *)
(* none).  At most MaxFiles files are there.                                *)
(***************************************************************************)
MaxFiles == 2

Bases == {"a"}
Exts == {"mp3", "m4a", "webm", "mp4", "opus", "M4A"}
Paths == Bases \X Exts
Absent == "absent"
Dir == "dir"      \* the entry is a sub-directory
Codecs == {"mp3", "aac", "alac", "mp4a", "opus", "vorbis", "flac", ""}
NoPath == <<>>

FsSpace ==
    {f \in [Paths -> Codecs \cup {Absent}] :
        Cardinality({q \in Paths : f[q] # Absent}) <= MaxFiles}

Exists(f, q) == q \in DOMAIN f /\ f[q] # Absent

\* ext.lstrip(".")
LStripDot(s) ==
    CASE s = ".m4a" -> "m4a"
      [] s = ".M4A" -> "M4A"
      [] s = ".mp3" -> "mp3"
      [] OTHER -> s

\* ffprobe_get_audio_codec: None ("") without ffprobe, without the file, or
\* when ffprobe prints nothing, as it does for a directory
ffprobe_get_audio_codec(f, e, q) ==
    IF ~e.ffprobe \/ ~Exists(f, q) \/ f[q] = Dir THEN "" ELSE f[q]

\* mutant: the m4a codecs taken for webm ones
codec_to_ext_swapped(codec) ==
    CASE codec = "mp3" -> "mp3"
      [] codec \in {"aac", "alac", "mp4a"} -> "webm"
      [] codec \in {"opus", "vorbis"} -> "m4a"
      [] OTHER -> ""

\* lines 237-244; "" for a codec that is not a key
codec_to_ext(codec) ==
    CASE codec = "mp3" -> "mp3"
      [] codec \in {"aac", "alac", "mp4a"} -> "m4a"
      [] codec \in {"opus", "vorbis"} -> "webm"
      [] OTHER -> ""

\* lines 259-263; {} for a desired extension that is not a key
container_compat(desired) ==
    CASE desired = "m4a" -> {"m4a", "mp4"}
      [] desired = "mp3" -> {"mp3"}
      [] desired = "webm" -> {"webm", "opus", "vorbis"}
      [] OTHER -> {}

\* os.remove
OsRemove(f, q) == [f EXCEPT ![q] = Absent]

\* os.rename of a file onto a free name
OsRename(f, src, dst) == [f EXCEPT ![dst] = f[src], ![src] = Absent]

\* The try block of lines 249-255 and 266-272: remove a stale target, rename,
\* return the target.  os.remove raises on a directory and os.rename raises
\* when the source is not there: the original path is returned.
RenameOver(f, src, dst) ==
    IF Exists(f, dst) /\ f[dst] = Dir
    THEN [path |-> src, fs |-> f]
    ELSE
    LET f1 == IF Exists(f, dst) THEN OsRemove(f, dst) ELSE f
    IN  IF Exists(f1, src)
        THEN [path |-> dst, fs |-> OsRename(f1, src, dst)]
        ELSE [path |-> src, fs |-> f1]

\* mutant: the extensions compared as written, without lower()
SameExt_case_sensitive(ext, desired_ext) == ext = LStripDot(desired_ext)

\* lines 230-233: the comparison of the two extensions
SameExt(ext, desired_ext) == Lower(ext) = Lower(LStripDot(desired_ext))

\* safe_rename_media on directory f: the returned path, the directory after
\* the call, whether ffprobe was asked and what it answered
safe_rename_media(f, e, media_path, desired_ext) ==
    IF media_path = NoPath \/ desired_ext = ""
    THEN [path |-> media_path, fs |-> f, probed |-> FALSE, codec |-> ""]
    ELSE
    LET base == media_path[1]
        ext == Lower(media_path[2])
        desired == Lower(LStripDot(desired_ext))
        codec == ffprobe_get_audio_codec(f, e, media_path)
        target == <<base, desired>>
        keep == [path |-> media_path, fs |-> f, probed |-> TRUE, codec |-> codec]
        renamed == RenameOver(f, media_path, target)
        moved == [path |-> renamed.path, fs |-> renamed.fs, probed |-> TRUE,
                  codec |-> codec]
    IN  IF SameExt(media_path[2], desired_ext)
        THEN [path |-> media_path, fs |-> f, probed |-> FALSE, codec |-> ""]
        ELSE IF codec # "" /\ codec_to_ext(codec) # ""
             THEN IF codec_to_ext(codec) = desired THEN moved ELSE keep
             ELSE IF ext \in container_compat(desired) THEN moved ELSE keep

(***************************************************************************)
(* cleanup_and_rename.  The entries of the output directory are files      *)
(* (named by their codec) and sub-directories; stat gives each entry its   *)
(* modification time and its size.  The title is "T"; "" stands for None.  *)
(***************************************************************************)
MaxEntries == 2   \* entries in the directory when cleanup_and_rename runs

StartTime == 10   \* start_time, taken at line 359
Backdate == 5     \* the 5 seconds of lines 287 and 294
Mtimes == {4, 5, 6}
Sizes == {1, 2}
NoStatOf == [mtime |-> 0, size |-> 0]

CleanupBases == {"T", "T.temp", "o"}
CleanupExts == {"mp4", "mkv", "m4a", "webm", "png"}
CleanupPaths == CleanupBases \X CleanupExts
\* the names the directory can hold before the call
InitialPaths ==
    {<<"T", "mp4">>, <<"T", "m4a">>, <<"T", "mkv">>, <<"T", "png">>,
     <<"T.temp", "mp4">>, <<"o", "mp4">>, <<"o", "png">>}
Titles == {"T", ""}

Entries(f) == {q \in DOMAIN f : f[q] # Absent}

\* os.listdir: the entries in an arbitrary order
Listings(f) ==
    {l \in [1..Cardinality(Entries(f)) -> Entries(f)] :
        \A i, j \in DOMAIN l : i # j => l[i] # l[j]}

\* f.startswith(safe_prefix)
StartsWith(q, title) == title = "T" /\ q[1] \in {"T", "T.temp"}

\* lower.endswith((".webp", ".jpg", ".png"))
IsThumbName(q) == Lower(q[2]) \in {"webp", "jpg", "png"}

\* ".temp." in lower
HasTempMarker(q) == q[1] = "T.temp"

\* os.path.isfile
IsFile(f, q) == Exists(f, q) /\ f[q] # Dir

\* mutant: the 5 seconds forgotten
Recent_no_backdate(st, q) == st[q].mtime >= StartTime

\* os.path.getmtime(path) >= start_time - 5
Recent(st, q) == st[q].mtime >= StartTime - Backdate

\* sorted(..., key=getmtime, reverse=True): most recent first, entries of
\* one modification time in the order of the listing
RECURSIVE SortedByMtime(_, _, _)
SortedByMtime(listing, st, times) ==
    IF times = {} THEN <<>>
    ELSE LET m == CHOOSE t \in times : \A u \in times : u <= t
             IsM(q) == st[q].mtime = m
         IN  SelectSeq(listing, IsM) \o SortedByMtime(listing, st, times \ {m})

\* lines 280-296: candidate discovery
Discover(f, st, title, listing) ==
    LET ByTitle(q) == StartsWith(q, title) /\ IsFile(f, q) /\ Recent(st, q)
        IsRecent(q) == Recent(st, q)
    IN  IF title # ""
        THEN SelectSeq(listing, ByTitle)
        ELSE SelectSeq(SortedByMtime(listing, st, Mtimes), IsRecent)

NoClass == [media |-> NoPath, thumbs |-> <<>>, temps |-> <<>>]

\* lines 299-316: classification of the candidates from the k-th on
RECURSIVE Classify(_, _, _, _)
Classify(cands, st, k, acc) ==
    IF k > Len(cands) THEN acc
    ELSE LET q == cands[k]
         IN  Classify(cands, st, k + 1,
                 IF IsThumbName(q) THEN [acc EXCEPT !.thumbs = Append(@, q)]
                 ELSE IF HasTempMarker(q) THEN [acc EXCEPT !.temps = Append(@, q)]
                 ELSE IF acc.media = NoPath THEN [acc EXCEPT !.media = q]
                 ELSE IF st[q].size > st[acc.media].size
                      THEN [acc EXCEPT !.media = q]
                      ELSE acc)

\* lines 318-320: the safe rename of Audio mode; its result is dropped
AudioRename(f, u, e, media) ==
    IF media # NoPath /\ u.format_var = "Audio"
    THEN LET r == safe_rename_media(f, e, media,
                                    desired_audio_ext(Lower(u.audio_format_var)))
         IN  [path |-> r.path, fs |-> r.fs, tried |-> TRUE]
    ELSE [path |-> media, fs |-> f, tried |-> FALSE]

\* mutant: the test on the recode checkbox forgotten
MkvWanted_any_recode(u, media) ==
    /\ media # NoPath /\ u.format_var # "Audio"
    /\ u.recode_var = "mkv" /\ Lower(media[2]) # "mkv"

\* lines 322-326: the conditions of the rename to .mkv
MkvWanted(u, media) ==
    /\ media # NoPath /\ u.format_var # "Audio"
    /\ ~u.recode_enabled /\ u.recode_var = "mkv"
    /\ Lower(media[2]) # "mkv"

\* lines 322-334: the rename of the container extension
MkvRename(f, u, media) ==
    IF MkvWanted(u, media)
    THEN LET r == RenameOver(f, media, <<media[1], "mkv">>)
         IN  [path |-> r.path, fs |-> r.fs, tried |-> TRUE]
    ELSE [path |-> media, fs |-> f, tried |-> FALSE]

\* mutant: the leftovers removed only when a media file was found
Leftovers_with_media(c) == IF c.media = NoPath THEN <<>> ELSE c.thumbs \o c.temps

\* line 336: thumbs + temps
Leftovers(c) == c.thumbs \o c.temps

\* lines 336-340: os.remove of each leftover from the k-th on; on a directory
\* or a missing entry it raises, which is swallowed
RECURSIVE RemoveAll(_, _, _)
RemoveAll(f, ps, k) ==
    IF k > Len(ps) THEN f
    ELSE RemoveAll(IF IsFile(f, ps[k]) THEN OsRemove(f, ps[k]) ELSE f, ps, k + 1)

\* the stat of the directory g, reached from f with stat st by the rename
\* of src to dst and by removals
StatAfter(g, st, src, dst) ==
    [q \in DOMAIN g |->
        IF g[q] = Absent THEN NoStatOf
        ELSE IF q = dst /\ dst # src THEN st[src]
        ELSE st[q]]

\* cleanup_and_rename(title, start_time) on directory f with stat st, listed
\* in the order listing: what it found, what it did, the directory it leaves
cleanup_and_rename(f, st, u, e, title, listing) ==
    LET candidates == Discover(f, st, title, listing)
        c == Classify(candidates, st, 1, NoClass)
        a == AudioRename(f, u, e, c.media)
        v == MkvRename(a.fs, u, c.media)
        final == IF a.tried THEN a.path ELSE v.path
        removals == Leftovers(c)
        g == RemoveAll(v.fs, removals, 1)
    IN  [candidates |-> candidates, media |-> c.media, thumbs |-> c.thumbs,
         temps |-> c.temps, safe_tried |-> a.tried, mkv_tried |-> v.tried,
         final |-> final, renamed |-> v.fs, removals |-> removals,
         fs |-> g, stat |-> StatAfter(g, st, c.media, final)]

(***************************************************************************)
(* The download worker, the stop button and the child processes            *)
(***************************************************************************)
MaxStarts == 2    \* start_download is run at most this many times
MaxQueue == 2     \* URLs in the queue when start_download is run
MaxUrls == 2      \* URLs of all the runs together

NoProc == 0       \* current_proc = None
NoCode == 100     \* returncode = None
SIGKILL == 9

\* the j-th line of the queue listbox
Url(j) == IF j = 1 THEN "X" ELSE "Y"

\* A child process: running with its stdout open, "closed" once its stdout is
\* at end-of-file while it still runs, "ended" with its exit code.  returncode
\* is Popen.returncode: the code once a wait or a poll has seen the end.
NewProc == [state |-> "running", code |-> NoCode, returncode |-> NoCode]

Alive(ps, p) == p # NoProc /\ ps[p].state # "ended"

\* Popen.poll and a returning Popen.wait: the end, if any, is recorded
Reap(ps, p) ==
    IF ps[p].state = "ended" THEN [ps EXCEPT ![p].returncode = ps[p].code] ELSE ps

\* current_proc.kill() inside try/except: None raises and is swallowed; an
\* ended process is only polled; a live one ends by SIGKILL
Kill(ps, p) ==
    IF p = NoProc THEN ps
    ELSE IF ps[p].state = "ended" THEN Reap(ps, p)
    ELSE [ps EXCEPT ![p].state = "ended", ![p].code = 0 - SIGKILL]

\* current_proc.wait(timeout=2) inside try/except: returns when the process
\* has ended, else raises TimeoutExpired, which is swallowed
WaitTimeout(ps, p) == IF p = NoProc THEN ps ELSE Reap(ps, p)

\* The settings cleanup_and_rename reads (lines 276, 318-322), which are
\* settings the command is built from (lines 131-168)
Settings(u) ==
    [mode |-> u.format_var, audio_format |-> u.audio_format_var,
     recode_enabled |-> u.recode_enabled, recode_target |-> u.recode_var,
     outdir |-> OrElse(u.outdir_var, DEFAULT_OUTDIR)]

NoSettings ==
    [mode |-> "", audio_format |-> "", recode_enabled |-> FALSE,
     recode_target |-> "", outdir |-> ""]

\* What is noted of the run of one URL: its process, whether stop was
\* requested while it was launched or streamed, the calls of
\* cleanup_and_rename and whether the process still ran then, the settings
\* read when the command was built and when the cleanup ran, whether an
\* output line carried an error marker, the exit code the process had when
\* the verdict was made, the verdict.
NewRun ==
    [pid |-> NoProc, attempted |-> FALSE, stopped |-> FALSE, cleanups |-> 0,
     alive_at_cleanup |-> FALSE, built |-> NoSettings, cleaned |-> NoSettings,
     marked |-> FALSE, exit_seen |-> NoCode, outcome |-> "none"]

\* a thread of download_worker(urls) with n URLs, before its first statement
NewWorker(n) ==
    [pc |-> "clear", n |-> n, i |-> 1, cmd |-> <<>>, e_bound |-> FALSE,
     err |-> FALSE, broke |-> "no", runs |-> [j \in 1..n |-> NewRun]]

At(w, label) == w \in 1..Len(workers) /\ workers[w].pc = label

\* the URL of worker wk is being launched or its output streamed
InFlight(wk) == wk.pc \in {"popen", "publish", "stream"}

RECURSIVE SumN(_, _)
SumN(ws, k) == IF k = 0 THEN 0 ELSE ws[k].n + SumN(ws, k - 1)

\* the download button is normal (line 596); nothing else is asked
StartAllowed == controls_enabled

\* start_download (lines 419-431): the worker thread is created with the
\* queue's URLs
start_download ==
    /\ StartAllowed
    /\ Len(workers) < MaxStarts
    /\ \E n \in 1..MaxQueue :
         /\ SumN(workers, Len(workers)) + n <= MaxUrls
         /\ workers' = Append(workers, NewWorker(n))
    /\ UNCHANGED <<stop_requested, current_proc, controls_enabled, after_queue,
                   procs, dialogs>>
    /\ UNCHANGED <<buildVars, renameVars>>

\* stop_download (lines 433-439): the stop button is normal.  Every URL in
\* flight is noted as stopped.
stop_download ==
    /\ ~controls_enabled
    /\ stop_requested' = TRUE
    /\ procs' = IF current_proc = NoProc THEN procs
                ELSE IF Alive(procs, current_proc) THEN Kill(procs, current_proc)
                ELSE Reap(procs, current_proc)
    /\ workers' = [w \in 1..Len(workers) |->
                     IF InFlight(workers[w])
                     THEN [workers[w] EXCEPT !.runs[workers[w].i].stopped = TRUE]
                     ELSE workers[w]]
    /\ UNCHANGED <<current_proc, controls_enabled, after_queue, dialogs>>
    /\ UNCHANGED <<buildVars, renameVars>>

\* The Tk main loop runs the oldest root.after callback.  The lambda of line
\* 363 reads the worker's variable e, which the end of the except clause
\* unbinds: run after that, it raises NameError and shows nothing.
run_after_callback ==
    /\ after_queue # <<>>
    /\ LET cb == Head(after_queue)
       IN  /\ after_queue' = Tail(after_queue)
           /\ controls_enabled' =
                 IF cb.kind = "enable_controls" THEN TRUE ELSE controls_enabled
           /\ dialogs' =
                 IF cb.kind = "showerror" /\ workers[cb.w].e_bound
                 THEN dialogs \cup {[kind |-> "launch", w |-> cb.w, i |-> cb.i]}
                 ELSE IF cb.kind = "show_output"
                 THEN dialogs \cup {[kind |-> "tool", w |-> cb.w, i |-> cb.i]}
                 ELSE dialogs
    /\ UNCHANGED <<stop_requested, current_proc, workers, procs>>
    /\ UNCHANGED <<buildVars, renameVars>>

\* lines 347-350: the flag is cleared and enable_controls(False) disables the
\* download button and enables the stop button
worker_clear(w) ==
    /\ At(w, "clear")
    /\ stop_requested' = FALSE
    /\ controls_enabled' = FALSE
    /\ workers' = [workers EXCEPT ![w].pc = "loop"]
    /\ UNCHANGED <<current_proc, after_queue, procs, dialogs>>
    /\ UNCHANGED <<buildVars, renameVars>>

\* lines 352-359: the next URL, the stop flag, the command
worker_loop(w) ==
    /\ At(w, "loop")
    /\ LET wk == workers[w]
       IN  workers' =
             IF wk.i > wk.n
             THEN [workers EXCEPT ![w].pc = "finish", ![w].broke = "exhausted"]
             ELSE IF stop_requested
             THEN [workers EXCEPT ![w].pc = "finish", ![w].broke = "stop"]
             ELSE IF Strip(Url(wk.i)) = ""
             THEN [workers EXCEPT ![w].i = wk.i + 1]
             ELSE [workers EXCEPT ![w].pc = "popen",
                                  ![w].cmd = build_command_for_url(Strip(Url(wk.i))),
                                  ![w].runs[wk.i].built = Settings(ui),
                                  ![w].err = FALSE]
    /\ UNCHANGED <<stop_requested, current_proc, controls_enabled, after_queue,
                   procs, dialogs>>
    /\ UNCHANGED <<buildVars, renameVars>>

\* line 361, right-hand side: the child is spawned, or Popen raises and line
\* 363 schedules the error box
worker_popen(w) ==
    /\ At(w, "popen")
    /\ LET wk == workers[w]
       IN  \/ /\ procs' = Append(procs, NewProc)
              /\ workers' = [workers EXCEPT ![w].pc = "publish",
                                            ![w].runs[wk.i].pid = Len(procs) + 1,
                                            ![w].runs[wk.i].attempted = TRUE]
              /\ UNCHANGED after_queue
           \/ /\ after_queue' = Append(after_queue,
                                       [kind |-> "showerror", w |-> w, i |-> wk.i])
              /\ workers' = [workers EXCEPT ![w].pc = "except",
                                            ![w].e_bound = TRUE,
                                            ![w].runs[wk.i].attempted = TRUE]
              /\ UNCHANGED procs
    /\ UNCHANGED <<stop_requested, current_proc, controls_enabled, dialogs>>
    /\ UNCHANGED <<buildVars, renameVars>>

\* line 364: break out of the except clause, which unbinds e
worker_except_break(w) ==
    /\ At(w, "except")
    /\ workers' = [workers EXCEPT ![w].pc = "finish", ![w].e_bound = FALSE,
                                  ![w].broke = "launch"]
    /\ UNCHANGED <<stop_requested, current_proc, controls_enabled, after_queue,
                   procs, dialogs>>
    /\ UNCHANGED <<buildVars, renameVars>>

\* line 361, the assignment to the global, and line 368, the iterator over
\* the new process's stdout
worker_publish(w) ==
    /\ At(w, "publish")
    /\ current_proc' = workers[w].runs[workers[w].i].pid
    /\ workers' = [workers EXCEPT ![w].pc = "stream"]
    /\ UNCHANGED <<stop_requested, controls_enabled, after_queue, procs, dialogs>>
    /\ UNCHANGED <<buildVars, renameVars>>

\* the process whose stdout worker w iterates
Reading(w) == workers[w].runs[workers[w].i].pid

\* lines 368-379: one line of output, with or without an error marker; then
\* the stop flag, the kill of current_proc and the break
worker_read_line(w) ==
    /\ At(w, "stream")
    /\ procs[Reading(w)].state = "running"
    /\ \E marker \in BOOLEAN :
         workers' = [workers EXCEPT
                        ![w].err = workers[w].err \/ marker,
                        ![w].pc = IF stop_requested THEN "wait" ELSE "stream"]
    /\ procs' = IF stop_requested THEN Kill(procs, current_proc) ELSE procs
    /\ UNCHANGED <<stop_requested, current_proc, controls_enabled, after_queue,
                   dialogs>>
    /\ UNCHANGED <<buildVars, renameVars>>

\* line 368: end of the stream
worker_read_eof(w) ==
    /\ At(w, "stream")
    /\ procs[Reading(w)].state # "running"
    /\ workers' = [workers EXCEPT ![w].pc = "wait"]
    /\ UNCHANGED <<stop_requested, current_proc, controls_enabled, after_queue,
                   procs, dialogs>>
    /\ UNCHANGED <<buildVars, renameVars>>

\* lines 380-381: reading raises (a line that does not decode) while the
\* process runs on
worker_read_error(w) ==
    /\ At(w, "stream")
    /\ procs[Reading(w)].state = "running"
    /\ workers' = [workers EXCEPT ![w].pc = "wait"]
    /\ UNCHANGED <<stop_requested, current_proc, controls_enabled, after_queue,
                   procs, dialogs>>
    /\ UNCHANGED <<buildVars, renameVars>>

\* line 389: cleanup_and_rename is called once, on every path
CleanupCalls == 1

\* Lines 383-389: the bounded wait on current_proc, then get_title_for_url
\* and cleanup_and_rename, noted with whether this URL's process still runs.
\* The directory of this specification is empty, and the cleanup leaves it so.
worker_wait_cleanup(w) ==
    /\ At(w, "wait")
    /\ procs' = WaitTimeout(procs, current_proc)
    /\ LET wk == workers[w]
           run == wk.runs[wk.i]
       IN  workers' = [workers EXCEPT
                          ![w].pc = "report",
                          ![w].runs[wk.i].cleanups = run.cleanups + CleanupCalls,
                          ![w].runs[wk.i].cleaned = Settings(ui),
                          ![w].runs[wk.i].alive_at_cleanup = Alive(procs, run.pid)]
    /\ UNCHANGED <<stop_requested, current_proc, controls_enabled, after_queue,
                   dialogs>>
    /\ UNCHANGED <<buildVars, renameVars>>

\* lines 391-405: the verdict on the run, then the next URL
worker_report(w) ==
    /\ At(w, "report")
    /\ LET wk == workers[w]
           rc == IF current_proc # NoProc THEN procs[current_proc].returncode
                 ELSE NoCode
           failed == wk.err \/ rc \notin {0, 1, NoCode}
       IN  /\ workers' = [workers EXCEPT
                             ![w].pc = "loop",
                             ![w].i = wk.i + 1,
                             ![w].runs[wk.i].marked = wk.err,
                             ![w].runs[wk.i].exit_seen =
                                 procs[wk.runs[wk.i].pid].code,
                             ![w].runs[wk.i].outcome =
                                 IF failed THEN "failed" ELSE "completed"]
           /\ after_queue' =
                 IF failed
                 THEN Append(after_queue, [kind |-> "show_output", w |-> w, i |-> wk.i])
                 ELSE after_queue
    /\ UNCHANGED <<stop_requested, current_proc, controls_enabled, procs, dialogs>>
    /\ UNCHANGED <<buildVars, renameVars>>

\* lines 407-417
worker_finish(w) ==
    /\ At(w, "finish")
    /\ current_proc' = NoProc
    /\ after_queue' = Append(after_queue, [kind |-> "enable_controls", w |-> w, i |-> 0])
    /\ workers' = [workers EXCEPT ![w].pc = "done"]
    /\ UNCHANGED <<stop_requested, controls_enabled, procs, dialogs>>
    /\ UNCHANGED <<buildVars, renameVars>>

\* a child process closes its stdout and runs on
proc_close_stdout(p) ==
    /\ p \in 1..Len(procs)
    /\ procs[p].state = "running"
    /\ procs' = [procs EXCEPT ![p].state = "closed"]
    /\ UNCHANGED <<stop_requested, current_proc, controls_enabled, after_queue,
                   workers, dialogs>>
    /\ UNCHANGED <<buildVars, renameVars>>

ExitCodes == {0, 1, 2}

\* a child process ends by itself
proc_exit(p) ==
    /\ p \in 1..Len(procs)
    /\ Alive(procs, p)
    /\ \E code \in ExitCodes :
         procs' = [procs EXCEPT ![p].state = "ended", ![p].code = code]
    /\ UNCHANGED <<stop_requested, current_proc, controls_enabled, after_queue,
                   workers, dialogs>>
    /\ UNCHANGED <<buildVars, renameVars>>

(***************************************************************************)
(* SpecBuild: the program starts from an arbitrary config file and system, *)
(* shows the preview for the empty entry, and rebuilds it on every key     *)
(* release in the URL entry.                                               *)
(***************************************************************************)
NoCall == [kind |-> "none"]
EmptyDir == [q \in Paths |-> Absent]

NoStat == <<>>

RenameIdle == fs = EmptyDir /\ call = NoCall /\ stat = NoStat

\* no download started: the globals of lines 74-75, the buttons of 818-820
WorkerIdle ==
    /\ stop_requested = FALSE
    /\ current_proc = NoProc
    /\ controls_enabled = TRUE
    /\ after_queue = <<>>
    /\ workers = <<>>
    /\ procs = <<>>
    /\ dialogs = {}

InitBuild ==
    /\ ui \in UiSpace
    /\ env \in {e \in EnvSpace : e.ffprobe}
    /\ url_entry = ""
    /\ command_text = build_command_for_url("")
    /\ RenameIdle
    /\ WorkerIdle

\* update_command_preview, bound to <KeyRelease> of the URL entry
update_command_preview(text) ==
    /\ url_entry' = text
    /\ command_text' = build_command_for_url(Strip(text))
    /\ UNCHANGED <<ui, env>>
    /\ UNCHANGED renameVars
    /\ UNCHANGED workerVars

NextBuild == \E text \in UrlValues : update_command_preview(text)

SpecBuild == InitBuild /\ [][NextBuild]_vars

(***************************************************************************)
(* SpecRename: safe_rename_media called on any directory, with any path    *)
(* and desired extension, and called again on the path it returned.        *)
(***************************************************************************)
DesiredValues == {"mp3", "m4a", "webm", ".M4A", ""}

DefaultUi ==
    [ outdir_var |-> "/dl", format_var |-> "Audio", audio_format_var |-> "mp3",
      audio_quality_var |-> "0", recode_enabled |-> TRUE, recode_var |-> "mp4",
      user_agent_var |-> "UA", embed_thumb_var |-> FALSE,
      add_metadata_var |-> TRUE, force_overwrite_var |-> TRUE,
      no_playlist_var |-> TRUE, use_cookies_var |-> FALSE,
      cookie_file_var |-> "", cookie_browser_var |-> "" ]

BuildIdle ==
    /\ ui = DefaultUi
    /\ url_entry = ""
    /\ command_text = build_command_for_url("")

InitRename ==
    /\ env \in {e \in EnvSpace : e.ffmpeg /\ ~e.cookie_file_exists}
    /\ BuildIdle
    /\ fs \in FsSpace
    /\ call = NoCall
    /\ stat = NoStat
    /\ WorkerIdle

\* one call, its arguments and its outcome kept for inspection
DoSafeRename(media_path, desired_ext, again) ==
    LET r == safe_rename_media(fs, env, media_path, desired_ext)
    IN  /\ fs' = r.fs
        /\ call' = [kind |-> "call", path |-> media_path, desired |-> desired_ext,
                    ret |-> r.path, probed |-> r.probed, codec |-> r.codec,
                    before |-> fs, again |-> again,
                    first |-> IF again THEN call.first ELSE media_path]
        /\ UNCHANGED stat
        /\ UNCHANGED buildVars
        /\ UNCHANGED workerVars

SafeRenameCall ==
    /\ call.kind = "none"
    /\ \E media_path \in Paths \cup {NoPath}, desired_ext \in DesiredValues :
           DoSafeRename(media_path, desired_ext, FALSE)

\* the same call on the path the last call returned
SafeRenameAgain ==
    /\ call.kind = "call"
    /\ DoSafeRename(call.ret, call.desired, TRUE)

NextRename == SafeRenameCall \/ SafeRenameAgain

SpecRename == InitRename /\ [][NextRename]_vars

(***************************************************************************)
(* SpecCleanup: cleanup_and_rename called once on any directory of at most *)
(* MaxEntries entries, old and recent, with or without the title, under    *)
(* every setting it reads.                                                 *)
(***************************************************************************)
EntryValues == {"aac", "opus", Dir}

UiCleanup ==
    {[DefaultUi EXCEPT !.format_var = fmt, !.audio_format_var = af,
                       !.recode_enabled = re, !.recode_var = rv] :
        fmt \in {"Audio", "720p"}, af \in {"aac", "opus"},
        re \in BOOLEAN, rv \in {"mkv", "mp4"}}

InitCleanup ==
    /\ ui \in UiCleanup
    /\ env = [ffmpeg |-> TRUE, ffprobe |-> TRUE, cookie_file_exists |-> FALSE]
    /\ url_entry = ""
    /\ command_text = build_command_for_url("")
    /\ \E S \in SUBSET InitialPaths :
         /\ Cardinality(S) <= MaxEntries
         /\ \E content \in [S -> EntryValues], meta \in [S -> [mtime : Mtimes, size : Sizes]] :
              /\ fs = [q \in CleanupPaths |-> IF q \in S THEN content[q] ELSE Absent]
              /\ stat = [q \in CleanupPaths |-> IF q \in S THEN meta[q] ELSE NoStatOf]
    /\ call = NoCall
    /\ WorkerIdle

\* one call, with what it was given and what it did kept for inspection
CleanupCall ==
    /\ call.kind = "none"
    /\ \E title \in Titles, listing \in Listings(fs) :
         LET r == cleanup_and_rename(fs, stat, ui, env, title, listing)
         IN  /\ fs' = r.fs
             /\ stat' = r.stat
             /\ call' = [kind |-> "cleanup", title |-> title, listing |-> listing,
                         before |-> fs, stat_before |-> stat,
                         candidates |-> r.candidates, media |-> r.media,
                         thumbs |-> r.thumbs, temps |-> r.temps,
                         safe_tried |-> r.safe_tried, mkv_tried |-> r.mkv_tried,
                         final |-> r.final, renamed |-> r.renamed,
                         removals |-> r.removals]
    /\ UNCHANGED buildVars
    /\ UNCHANGED workerVars

NextCleanup == CleanupCall

SpecCleanup == InitCleanup /\ [][NextCleanup]_vars

(***************************************************************************)
(* Spec: the UI thread (download and stop buttons, the after callbacks),   *)
(* the worker threads and the child processes, from the default settings.  *)
(***************************************************************************)
Init ==
    /\ env = [ffmpeg |-> TRUE, ffprobe |-> TRUE, cookie_file_exists |-> FALSE]
    /\ BuildIdle
    /\ RenameIdle
    /\ WorkerIdle

Next ==
    \/ start_download
    \/ stop_download
    \/ run_after_callback
    \/ \E w \in 1..Len(workers) : worker_clear(w)
    \/ \E w \in 1..Len(workers) : worker_loop(w)
    \/ \E w \in 1..Len(workers) : worker_popen(w)
    \/ \E w \in 1..Len(workers) : worker_except_break(w)
    \/ \E w \in 1..Len(workers) : worker_publish(w)
    \/ \E w \in 1..Len(workers) : worker_read_line(w)
    \/ \E w \in 1..Len(workers) : worker_read_eof(w)
    \/ \E w \in 1..Len(workers) : worker_read_error(w)
    \/ \E w \in 1..Len(workers) : worker_wait_cleanup(w)
    \/ \E w \in 1..Len(workers) : worker_report(w)
    \/ \E w \in 1..Len(workers) : worker_finish(w)
    \/ \E p \in 1..Len(procs) : proc_close_stdout(p)
    \/ \E p \in 1..Len(procs) : proc_exit(p)

Spec == Init /\ [][Next]_vars

(***************************************************************************)
(* SpecRun: the download button is pressed once, on a queue of one or more *)
(* URLs.  The worker thread and the Tk main loop are scheduled fairly;     *)
(* nothing is assumed of the child processes (they may stay silent and     *)
(* never end) nor of the user (the stop button may be pressed once only).  *)
(* Reading a line, or failing to decode one, needs the process to write,   *)
(* so neither step is required to happen.                                  *)
(***************************************************************************)
StartOnce == Len(workers) = 0 /\ start_download

NextRun ==
    \/ StartOnce
    \/ stop_download
    \/ run_after_callback
    \/ \E w \in 1..Len(workers) : worker_clear(w)
    \/ \E w \in 1..Len(workers) : worker_loop(w)
    \/ \E w \in 1..Len(workers) : worker_popen(w)
    \/ \E w \in 1..Len(workers) : worker_except_break(w)
    \/ \E w \in 1..Len(workers) : worker_publish(w)
    \/ \E w \in 1..Len(workers) : worker_read_line(w)
    \/ \E w \in 1..Len(workers) : worker_read_eof(w)
    \/ \E w \in 1..Len(workers) : worker_read_error(w)
    \/ \E w \in 1..Len(workers) : worker_wait_cleanup(w)
    \/ \E w \in 1..Len(workers) : worker_report(w)
    \/ \E w \in 1..Len(workers) : worker_finish(w)
    \/ \E p \in 1..Len(procs) : proc_close_stdout(p)
    \/ \E p \in 1..Len(procs) : proc_exit(p)

FairRun ==
    /\ WF_vars(run_after_callback)
    /\ WF_vars(\E w \in 1..Len(workers) : worker_clear(w))
    /\ WF_vars(\E w \in 1..Len(workers) : worker_loop(w))
    /\ WF_vars(\E w \in 1..Len(workers) : worker_popen(w))
    /\ WF_vars(\E w \in 1..Len(workers) : worker_except_break(w))
    /\ WF_vars(\E w \in 1..Len(workers) : worker_publish(w))
    /\ WF_vars(\E w \in 1..Len(workers) : worker_read_eof(w))
    /\ WF_vars(\E w \in 1..Len(workers) : worker_wait_cleanup(w))
    /\ WF_vars(\E w \in 1..Len(workers) : worker_report(w))
    /\ WF_vars(\E w \in 1..Len(workers) : worker_finish(w))

SpecRun == Init /\ [][NextRun]_vars /\ FairRun

(***************************************************************************)
(* SpecUi: one download of one URL, in Audio or in video mode, while the   *)
(* user operates the widgets that enable_controls(False) leaves usable:    *)
(* the audio format box (Audio mode), the recode checkbox and the recode   *)
(* target box (video modes), and the Parcourir button of the directory.    *)
(***************************************************************************)
AudioFormatChoices == {"mp3", "aac"}
RecodeChoices == {"mp4", "mkv"}
OutdirChoices == {"/dl", "/other"}

\* update_command_preview once the settings are u
Preview(u) == BuildCommand(u, env, Strip(url_entry))

\* audio_format_menu is readonly in Audio mode, download or not (lines
\* 597-599, 611); the trace of line 829 rebuilds the preview
select_audio_format(a) ==
    /\ ui.format_var = "Audio"
    /\ ui' = [ui EXCEPT !.audio_format_var = a]
    /\ command_text' = Preview(ui')
    /\ UNCHANGED <<env, url_entry>>
    /\ UNCHANGED <<renameVars, workerVars>>

\* recode_checkbox is normal in the video modes, download or not (lines
\* 604-606, 618); the trace of line 828 refreshes the widgets and the preview
toggle_recode ==
    /\ ui.format_var # "Audio"
    /\ ui' = [ui EXCEPT !.recode_enabled = ~ui.recode_enabled]
    /\ command_text' = Preview(ui')
    /\ UNCHANGED <<env, url_entry>>
    /\ UNCHANGED <<renameVars, workerVars>>

\* recode_menu is readonly in the video modes when recode is ticked (lines
\* 607, 619); the trace of line 827 only saves the preferences
select_recode(target) ==
    /\ ui.format_var # "Audio" /\ ui.recode_enabled
    /\ ui' = [ui EXCEPT !.recode_var = target]
    /\ UNCHANGED <<env, url_entry, command_text>>
    /\ UNCHANGED <<renameVars, workerVars>>

\* browse_dir (lines 94-99), behind the Parcourir button, which
\* enable_controls never disables
browse_dir(d) ==
    /\ ui' = [ui EXCEPT !.outdir_var = d]
    /\ command_text' = Preview(ui')
    /\ UNCHANGED <<env, url_entry>>
    /\ UNCHANGED <<renameVars, workerVars>>

\* the download button pressed once, the queue holding one URL
StartOneUrl == StartOnce /\ workers'[1].n = 1

InitUi ==
    /\ env = [ffmpeg |-> TRUE, ffprobe |-> TRUE, cookie_file_exists |-> FALSE]
    /\ ui \in {DefaultUi, [DefaultUi EXCEPT !.format_var = "720p"]}
    /\ url_entry = ""
    /\ command_text = build_command_for_url("")
    /\ RenameIdle
    /\ WorkerIdle

NextUi ==
    \/ StartOneUrl
    \/ stop_download
    \/ run_after_callback
    \/ \E a \in AudioFormatChoices : select_audio_format(a)
    \/ toggle_recode
    \/ \E target \in RecodeChoices : select_recode(target)
    \/ \E d \in OutdirChoices : browse_dir(d)
    \/ \E w \in 1..Len(workers) : worker_clear(w)
    \/ \E w \in 1..Len(workers) : worker_loop(w)
    \/ \E w \in 1..Len(workers) : worker_popen(w)
    \/ \E w \in 1..Len(workers) : worker_except_break(w)
    \/ \E w \in 1..Len(workers) : worker_publish(w)
    \/ \E w \in 1..Len(workers) : worker_read_line(w)
    \/ \E w \in 1..Len(workers) : worker_read_eof(w)
    \/ \E w \in 1..Len(workers) : worker_read_error(w)
    \/ \E w \in 1..Len(workers) : worker_wait_cleanup(w)
    \/ \E w \in 1..Len(workers) : worker_report(w)
    \/ \E w \in 1..Len(workers) : worker_finish(w)
    \/ \E p \in 1..Len(procs) : proc_close_stdout(p)
    \/ \E p \in 1..Len(procs) : proc_exit(p)

SpecUi == InitUi /\ [][NextUi]_vars

(***************************************************************************)
(* SpecCookies: generate_cookies, run from any browser and cookie-file     *)
(* setting; what yt-dlp answers to each extraction is drawn freely.        *)
(***************************************************************************)
BrowserValues == {"", "chrome", " chrome ", "firefox", "Firefox"}
TargetValues == {"", "/c.txt"}

\* What one extraction can answer: subprocess.run raises, or yt-dlp ends
\* with an exit code, its output mentions secretstorage or not, and the
\* target file is there afterwards or not.
ExtractionOutcomes ==
    [raised : {TRUE}, signature : {FALSE}, returncode : {1}, target_exists : {FALSE}]
    \cup [raised : {FALSE}, signature : BOOLEAN, returncode : {0, 1},
          target_exists : BOOLEAN]

\* p.returncode == 0 and os.path.exists(target)
Extracted(out) == ~out.raised /\ out.returncode = 0 /\ out.target_exists

\* mutant: the fallback tried whatever the browser
NeedsFallback_always(browser) == browser = browser

\* line 525: the fallback is tried unless the browser was firefox already
NeedsFallback(browser) == Lower(browser) \notin {"firefox", "mozilla"}

\* generate_cookies (lines 492-558) with yt-dlp found or not and the answers
\* first and second of the extractions: the extractions made, the message
\* boxes shown, whether cookie_file_var was set
GenerateCookies(u, found, first, second) ==
    LET browser == OrElse(Strip(u.cookie_browser_var), "firefox")
        target == OrElse(Strip(u.cookie_file_var), COOKIE_FILE)
        run1 == [browser |-> browser, out |-> first]
        run2 == [browser |-> "firefox", out |-> second]
        result(runs, boxes, set) ==
            [browser |-> browser, target |-> target, runs |-> runs,
             boxes |-> boxes, set |-> set]
    IN  IF ~found THEN result(<<>>, <<"no_ytdlp">>, FALSE)
        ELSE IF first.raised THEN result(<<run1>>, <<"cannot_run">>, FALSE)
        ELSE IF first.signature
        THEN IF NeedsFallback(browser)
             THEN IF Extracted(second)
                  THEN result(<<run1, run2>>, <<"generated_fallback">>, TRUE)
                  ELSE result(<<run1, run2>>, <<"remediation">>, FALSE)
             ELSE result(<<run1>>, <<"remediation">>, FALSE)
        ELSE IF first.returncode # 0 \/ ~first.target_exists
        THEN result(<<run1>>, <<"failed">>, FALSE)
        ELSE result(<<run1>>, <<"generated">>, TRUE)

InitCookies ==
    /\ ui \in {[DefaultUi EXCEPT !.cookie_browser_var = b, !.cookie_file_var = t,
                                 !.use_cookies_var = TRUE] :
                  b \in BrowserValues, t \in TargetValues}
    /\ env = [ffmpeg |-> TRUE, ffprobe |-> TRUE, cookie_file_exists |-> FALSE]
    /\ url_entry = ""
    /\ command_text = build_command_for_url("")
    /\ RenameIdle
    /\ WorkerIdle

\* the button "Générer / mettre à jour", pressed once; setting
\* cookie_file_var rebuilds the preview (line 836)
generate_cookies ==
    /\ call.kind = "none"
    /\ \E found \in BOOLEAN, first \in ExtractionOutcomes, second \in ExtractionOutcomes :
         LET r == GenerateCookies(ui, found, first, second)
             made == r.set /\ r.target = COOKIE_FILE
         IN  /\ call' = [kind |-> "cookies", browser |-> r.browser, target |-> r.target,
                         runs |-> r.runs, boxes |-> r.boxes, set |-> r.set,
                         file_before |-> ui.cookie_file_var]
             /\ ui' = IF r.set THEN [ui EXCEPT !.cookie_file_var = r.target] ELSE ui
             /\ env' = IF made THEN [env EXCEPT !.cookie_file_exists = TRUE] ELSE env
             /\ command_text' = IF r.set THEN BuildCommand(ui', env', Strip(url_entry))
                                ELSE command_text
    /\ UNCHANGED <<url_entry, fs, stat>>
    /\ UNCHANGED workerVars

NextCookies == generate_cookies

SpecCookies == InitCookies /\ [][NextCookies]_vars

(***************************************************************************)
(* Properties of the command builder (SpecBuild)                           *)
(***************************************************************************)
HasWriteThumb(cmd) ==
    /\ HasPair(cmd, "--write-thumbnail", "--convert-thumbnails")
    /\ HasPair(cmd, "--convert-thumbnails", "png")

\* C4: in a video mode with the embed-thumbnail checkbox on, --embed-thumbnail
\* is in the command only if recode is enabled, the target is one of mp4, mkv,
\* m4v, mov and ffmpeg is present; in every other case --embed-thumbnail is
\* absent and --write-thumbnail --convert-thumbnails png is there instead.
C4_VideoEmbedSafe ==
    (ui.format_var # "Audio" /\ ui.embed_thumb_var) =>
        LET safe == /\ ui.recode_enabled
                    /\ ui.recode_var \in {"mp4", "mkv", "m4v", "mov"}
                    /\ env.ffmpeg
        IN  /\ Has(command_text, "--embed-thumbnail") => safe
            /\ ~safe => /\ ~Has(command_text, "--embed-thumbnail")
                        /\ HasWriteThumb(command_text)

\* the webm target with ffmpeg present: the substitute is emitted
C4_Witness ==
    /\ url_entry = "X"
    /\ ui.format_var = "720p" /\ ui.embed_thumb_var
    /\ ui.recode_enabled /\ ui.recode_var = "webm" /\ env.ffmpeg
    /\ HasWriteThumb(command_text)
    /\ ~Has(command_text, "--embed-thumbnail")

\* C5: in Audio mode with the checkbox on, --embed-thumbnail is in the command
\* only if the desired container (aac -> m4a, opus -> webm, else the format)
\* is one of mp3, m4a, flac, ogg, opus; otherwise the write-thumbnail
\* directive is there; never both; and neither with the checkbox off.
C5_AudioEmbedSafe ==
    ui.format_var = "Audio" =>
        LET f == Lower(ui.audio_format_var)
            d == IF f = "aac" THEN "m4a" ELSE IF f = "opus" THEN "webm" ELSE f
            embeddable == d \in {"mp3", "m4a", "flac", "ogg", "opus"}
            embed == Has(command_text, "--embed-thumbnail")
            write == Has(command_text, "--write-thumbnail")
        IN  /\ ~(embed /\ write)
            /\ ui.embed_thumb_var /\ embed => embeddable
            /\ ui.embed_thumb_var /\ ~embeddable => HasWriteThumb(command_text)
            /\ ~ui.embed_thumb_var => ~embed /\ ~write

\* opus is extracted to webm, which takes no cover art: the substitute
C5_Witness ==
    /\ url_entry = "X"
    /\ ui.format_var = "Audio" /\ ui.embed_thumb_var
    /\ ui.audio_format_var = "opus"
    /\ HasWriteThumb(command_text)
    /\ ~Has(command_text, "--embed-thumbnail")

\* C6: in Audio mode, whatever the recode settings, the command holds
\* -x --audio-format <format> and no -f, no --recode-video, no codec hint.
C6_AudioNoVideoFilter ==
    ui.format_var = "Audio" =>
        /\ HasPair(command_text, "-x", "--audio-format")
        /\ HasPair(command_text, "--audio-format", Lower(ui.audio_format_var))
        /\ ~Has(command_text, "-f")
        /\ ~Has(command_text, "--recode-video")
        /\ ~Has(command_text, "--postprocessor-args")

C6_Witness ==
    /\ url_entry = "X"
    /\ ui.format_var = "Audio" /\ ui.audio_format_var = "aac"
    /\ ui.recode_enabled /\ ui.recode_var = "mp4"
    /\ HasPair(command_text, "--audio-format", "aac")
    /\ ~Has(command_text, "-f")

\* C7: at most one cookie directive; with cookies enabled exactly one, by
\* precedence: the explicit file, else the generated default file if it is on
\* disk, else the browser (firefox when unset); none with cookies disabled.
C7_OneCookieDirective ==
    LET nfile == Count(command_text, "--cookies")
        nbrowser == Count(command_text, "--cookies-from-browser")
        explicit == Strip(ui.cookie_file_var)
        browser == Strip(ui.cookie_browser_var)
    IN  /\ nfile + nbrowser <= 1
        /\ ~ui.use_cookies_var => nfile + nbrowser = 0
        /\ ui.use_cookies_var =>
            /\ nfile + nbrowser = 1
            /\ explicit # "" => HasPair(command_text, "--cookies", explicit)
            /\ (explicit = "" /\ env.cookie_file_exists) =>
                   HasPair(command_text, "--cookies", "~/.yt-dlp-cookies.txt")
            /\ (explicit = "" /\ ~env.cookie_file_exists) =>
                   HasPair(command_text, "--cookies-from-browser",
                           IF browser = "" THEN "firefox" ELSE browser)

\* the explicit file wins although the generated file is on disk
C7_Witness ==
    /\ url_entry = "X"
    /\ ui.use_cookies_var /\ ui.cookie_file_var = "/c.txt"
    /\ env.cookie_file_exists
    /\ HasPair(command_text, "--cookies", "/c.txt")
    /\ Count(command_text, "--cookies") = 1

\* the selector C8 states for a format
C8_Selector(fmt) ==
    CASE fmt = "best" -> "bestvideo+bestaudio/best"
      [] fmt = "1080p" -> "bestvideo[height<=1080]+bestaudio/best"
      [] fmt = "720p" -> "bestvideo[height<=720]+bestaudio/best"
      [] fmt = "480p" -> "bestvideo[height<=480]+bestaudio/best"
      [] fmt = "360p" -> "bestvideo[height<=360]+bestaudio/best"
      [] fmt = "240p" -> "bestvideo[height<=240]+bestaudio/best"
      [] OTHER -> "bestaudio"

C8_Hints(cmd, tgt) ==
    /\ tgt = "mp4" => HasPair(cmd, "--postprocessor-args", "ffmpeg:-c:v libx264")
    /\ tgt = "webm" => HasPair(cmd, "--postprocessor-args", "ffmpeg:-c:v libvpx-vp9")
    /\ tgt \notin {"mp4", "webm"} => ~Has(cmd, "--postprocessor-args")

C8_FormatPart ==
    ui.format_var # "Audio" =>
        /\ Count(command_text, "-f") = 1
        /\ HasPair(command_text, "-f", C8_Selector(ui.format_var))

\* C8 as stated: in a video mode exactly one -f with the selector of the
\* format, and --recode-video <target> (with the hint of the target) if and
\* only if recodeEnabled.
C8_AsStated ==
    ui.format_var # "Audio" =>
        /\ C8_FormatPart
        /\ Has(command_text, "--recode-video") <=> ui.recode_enabled
        /\ ui.recode_enabled =>
            /\ HasPair(command_text, "--recode-video", ui.recode_var)
            /\ C8_Hints(command_text, ui.recode_var)
        /\ ~ui.recode_enabled => ~Has(command_text, "--postprocessor-args")

\* C8 amended: --recode-video <target> is there if and only if recodeEnabled
\* and the recode target is not empty.
C8_RecodeIffEnabledAndTarget ==
    ui.format_var # "Audio" =>
        LET recode == ui.recode_enabled /\ ui.recode_var # ""
        IN  /\ C8_FormatPart
            /\ Has(command_text, "--recode-video") <=> recode
            /\ recode =>
                /\ HasPair(command_text, "--recode-video", ui.recode_var)
                /\ C8_Hints(command_text, ui.recode_var)
            /\ ~recode => ~Has(command_text, "--postprocessor-args")

\* the end-to-end case: 720p without recode
C8_Witness ==
    /\ url_entry = "X"
    /\ ui.format_var = "720p" /\ ~ui.recode_enabled
    /\ HasPair(command_text, "-f", "bestvideo[height<=720]+bestaudio/best")
    /\ ~Has(command_text, "--recode-video")

(***************************************************************************)
(* Properties of safe_rename_media (SpecRename)                            *)
(***************************************************************************)
\* C9: when the file's extension, compared without case, already is the
\* desired one, the call returns the path it was given, does not probe and
\* leaves the directory as it was; and a call on the path a first call
\* returned returns that path and leaves the directory as it was.
C9_Idempotent ==
    call.kind = "call" =>
        /\ (/\ call.path # NoPath /\ call.desired # ""
            /\ Lower(call.path[2]) = Lower(LStripDot(call.desired)))
           => (call.ret = call.path /\ ~call.probed /\ fs = call.before)
        /\ call.again => (call.ret = call.path /\ fs = call.before)

\* a.mp4 was renamed to a.m4a by the first call; the second call, on a.m4a,
\* changed nothing
C9_Witness ==
    /\ call.kind = "call" /\ call.again
    /\ call.first = <<"a", "mp4">>
    /\ call.path = <<"a", "m4a">>
    /\ call.ret = call.path
    /\ Exists(fs, call.path) /\ ~Exists(fs, call.first)

\* the extension C10 gives for the codecs it names
C10_Mapped(codec) ==
    CASE codec = "mp3" -> "mp3"
      [] codec = "aac" -> "m4a"
      [] codec = "alac" -> "m4a"
      [] codec = "mp4a" -> "m4a"
      [] codec = "opus" -> "webm"
      [] codec = "vorbis" -> "webm"

\* C10: when the prober answers one of mp3, aac, alac, mp4a, opus, vorbis for
\* a file whose extension is not the desired one, the file becomes
\* <base>.<desired>, replacing a stale file of that name, if the codec's
\* extension is the desired one; otherwise the directory is untouched and the
\* path given is returned, whatever the file's extension.
C10_CodecDecidesRename ==
    (/\ call.kind = "call" /\ call.path # NoPath /\ call.desired # ""
     /\ Lower(call.path[2]) # Lower(LStripDot(call.desired))
     /\ call.codec \in {"mp3", "aac", "alac", "mp4a", "opus", "vorbis"})
    => LET desired == Lower(LStripDot(call.desired))
           target == <<call.path[1], desired>>
       IN  IF C10_Mapped(call.codec) = desired
           THEN /\ call.ret = target
                /\ fs = [call.before EXCEPT ![target] = call.before[call.path],
                                            ![call.path] = Absent]
           ELSE /\ call.ret = call.path
                /\ fs = call.before

\* opus in a.opus, webm desired, over a stale a.webm: renamed
C10_Witness ==
    /\ call.kind = "call" /\ ~call.again
    /\ call.path = <<"a", "opus">> /\ call.desired = "webm"
    /\ call.codec = "opus"
    /\ Exists(call.before, <<"a", "webm">>) /\ call.before[<<"a", "webm">>] = "aac"
    /\ call.ret = <<"a", "webm">>
    /\ fs[<<"a", "webm">>] = "opus" /\ ~Exists(fs, <<"a", "opus">>)

\* opus in a.opus, mp3 desired: refused
C10_WitnessRefused ==
    /\ call.kind = "call" /\ ~call.again
    /\ call.path = <<"a", "opus">> /\ call.desired = "mp3"
    /\ call.codec = "opus"
    /\ call.ret = call.path /\ fs = call.before

(***************************************************************************)
(* Properties of the download worker (Spec)                                *)
(***************************************************************************)
\* worker w has gone past its j-th URL: it is at a later one, or finishing
C1_Passed(w, j) == workers[w].i > j \/ workers[w].pc \in {"finish", "done"}

\* cleanup_and_rename runs exactly once for every launched URL the worker
\* has gone past, and never twice
C1_CleanupOnce ==
    \A w \in 1..Len(workers) : \A j \in 1..workers[w].n :
        LET run == workers[w].runs[j]
        IN  run.pid # NoProc =>
                /\ run.cleanups <= 1
                /\ C1_Passed(w, j) => run.cleanups = 1

\* C1: when stop is requested while a URL's process is being launched or its
\* output streamed, cleanup_and_rename runs exactly once for that URL, after
\* the process has been force-killed (read here as: the process no longer
\* runs when the cleanup starts) and before the worker takes a further URL
\* or finishes.
C1_AsStated ==
    \A w \in 1..Len(workers) : \A j \in 1..workers[w].n :
        LET run == workers[w].runs[j]
        IN  (run.stopped /\ run.pid # NoProc) =>
                /\ run.cleanups <= 1
                /\ C1_Passed(w, j) => run.cleanups = 1
                /\ run.cleanups = 1 => ~run.alive_at_cleanup

\* C2: at most one downloader child process runs at any time.
C2_AtMostOneRunning ==
    Cardinality({p \in 1..Len(procs) : Alive(procs, p)}) <= 1

\* the error box of worker w's launch failure is still to be run
C3_BoxPending(w) ==
    \E k \in 1..Len(after_queue) :
        after_queue[k].kind = "showerror" /\ after_queue[k].w = w

\* C3: a launch failure is reported, and the worker goes on with the
\* remaining URLs of the queue unless stop has been requested.
C3_AsStated ==
    \A w \in 1..Len(workers) :
        LET wk == workers[w]
        IN  wk.broke = "launch" =>
                /\ ~C3_BoxPending(w) =>
                       [kind |-> "launch", w |-> w, i |-> wk.i] \in dialogs
                /\ ~(wk.pc = "finish" /\ wk.i < wk.n /\ ~stop_requested)

(***************************************************************************)
(* Properties of the fallback table of safe_rename_media (SpecRename)      *)
(***************************************************************************)
\* the extension-compatibility table as the specification lists it
C11_Table(desired) ==
    CASE desired = "m4a" -> {"m4a", "mp4"}
      [] desired = "mp3" -> {"mp3"}
      [] desired = "webm" -> {"webm", "opus", "vorbis"}
      [] OTHER -> {}

\* the last call was made on an existing file whose extension is not the
\* desired one
C11_Applies ==
    /\ call.kind = "call" /\ call.path # NoPath /\ call.desired # ""
    /\ Exists(call.before, call.path)
    /\ Lower(call.path[2]) # Lower(LStripDot(call.desired))

\* the last call renamed the file to <base>.<desired>
C11_Renamed ==
    /\ call.ret = <<call.path[1], Lower(LStripDot(call.desired))>>
    /\ ~Exists(fs, call.path)
    /\ Exists(fs, call.ret)

\* without a prober answer the file is renamed exactly when its extension is
\* listed as compatible with the desired one
C11_TableWhenNoCodec ==
    (C11_Applies /\ call.codec = "") =>
        (C11_Renamed <=>
            Lower(call.path[2]) \in C11_Table(Lower(LStripDot(call.desired))))

\* C11: the extension-compatibility table decides only when the prober is
\* unavailable or returns nothing, and then the file is renamed if and only
\* if its extension is listed as compatible with the desired one; whenever
\* the prober returns a codec name, a rename happens only because that
\* codec's extension is the desired one, never because of the table.
C11_AsStated ==
    /\ C11_TableWhenNoCodec
    /\ (C11_Applies /\ call.codec # "" /\ C11_Renamed) =>
           call.codec \in {"mp3", "aac", "alac", "mp4a", "opus", "vorbis"}

(***************************************************************************)
(* Properties of cleanup_and_rename (SpecCleanup)                          *)
(***************************************************************************)
InSeq(q, l) == \E k \in 1..Len(l) : l[k] = q

\* entry q was in the directory, last modified before start_time - 5 s
C12_Old(q) ==
    Exists(call.before, q) /\ call.stat_before[q].mtime < StartTime - Backdate

\* entry q was in the directory, last modified at or after start_time - 5 s
C12_New(q) ==
    Exists(call.before, q) /\ call.stat_before[q].mtime >= StartTime - Backdate

\* q matches the discovery branch taken: its name starts with the title
\* when the title is known, any entry when it is not
C12_Matches(q) == call.title = "" \/ (call.title = "T" /\ q[1] \in {"T", "T.temp"})

\* no entry older than start_time - 5 s is a candidate, is classified, is
\* selected for the rename or is removed by the deletion step
C12_OldUntouched ==
    call.kind = "cleanup" =>
        \A q \in CleanupPaths :
            C12_Old(q) =>
                /\ ~InSeq(q, call.candidates)
                /\ q # call.media
                /\ ~InSeq(q, call.thumbs) /\ ~InSeq(q, call.temps)
                /\ ~InSeq(q, call.removals)
                /\ Exists(call.renamed, q) => Exists(fs, q)

\* C12 as stated: no entry modified strictly before start_time - 5 s is a
\* candidate (nor classified, renamed or removed by the deletion step), and
\* every entry matching the branch and modified at or after that time is a
\* candidate.
C12_AsStated ==
    /\ C12_OldUntouched
    /\ call.kind = "cleanup" =>
           \A q \in CleanupPaths :
               (C12_New(q) /\ C12_Matches(q)) => InSeq(q, call.candidates)

\* C12 amended: as above, except that when the title is known only regular
\* files are candidates; a sub-directory whose name starts with the title
\* never is, while without the title sub-directories are candidates too.
C12_CandidatesByAge ==
    /\ C12_OldUntouched
    /\ call.kind = "cleanup" =>
           \A q \in CleanupPaths :
               InSeq(q, call.candidates) <=>
                   /\ C12_New(q) /\ C12_Matches(q)
                   /\ call.title # "" => call.before[q] # Dir

\* the title is known; T.mp4 is older than the threshold and stays out, the
\* thumbnail T.png, modified exactly start_time - 5 s, is taken and removed
C12_Witness ==
    /\ call.kind = "cleanup" /\ call.title = "T"
    /\ C12_Old(<<"T", "mp4">>)
    /\ Exists(call.before, <<"T", "png">>)
    /\ call.stat_before[<<"T", "png">>].mtime = StartTime - Backdate
    /\ call.candidates = << <<"T", "png">> >>
    /\ call.media = NoPath
    /\ Exists(fs, <<"T", "mp4">>) /\ ~Exists(fs, <<"T", "png">>)

\* candidate q is a thumbnail or a temp artifact by its name
C13_Leftover(q) ==
    InSeq(q, call.candidates) /\ (IsThumbName(q) \/ HasTempMarker(q))

\* C13: once classification is done, removal is attempted for every
\* candidate classified as thumbnail or temp and for nothing else, whether
\* or not there is a Media file and whatever became of the rename; every
\* such file is gone afterwards (a sub-directory of such a name resists
\* os.remove and stays), the deletion step removes nothing else, and the
\* Media file, under the name the rename step left it, is still there.
C13_LeftoversRemoved ==
    call.kind = "cleanup" =>
        /\ \A q \in CleanupPaths :
              /\ InSeq(q, call.removals) <=> C13_Leftover(q)
              /\ (C13_Leftover(q) /\ call.before[q] # Dir) => ~Exists(fs, q)
              /\ (Exists(call.renamed, q) /\ ~Exists(fs, q)) => C13_Leftover(q)
        /\ call.media # NoPath =>
              /\ ~InSeq(call.media, call.removals)
              /\ ~InSeq(call.final, call.removals)
              /\ Exists(fs, call.final)
              /\ fs[call.final] = call.before[call.media]

\* no Media file at all: the thumbnail and the temp artifact are removed
C13_Witness ==
    /\ call.kind = "cleanup" /\ call.media = NoPath
    /\ call.before[<<"T", "png">>] \in {"aac", "opus"}
    /\ call.before[<<"T.temp", "mp4">>] \in {"aac", "opus"}
    /\ Len(call.candidates) = 2
    /\ Entries(fs) = {}

\* Audio mode, the rename of T.mp4 (opus) to m4a refused: the thumbnail is
\* removed all the same and the Media file stays
C13_WitnessRefused ==
    /\ call.kind = "cleanup" /\ ui.format_var = "Audio"
    /\ call.media = <<"T", "mp4">> /\ call.final = call.media
    /\ call.safe_tried
    /\ Exists(call.before, <<"T", "png">>)
    /\ Entries(fs) = {<<"T", "mp4">>}

\* the directory after the rename step differs from the one before only at
\* the Media file and at the name it was given
C16_OnlyMedia ==
    \A q \in CleanupPaths :
        (q # call.media /\ q # call.final) => call.renamed[q] = call.before[q]

\* the Media file has become <base>.<ext>, over whatever file had that name
C16_RenamedTo(ext) ==
    /\ call.final = <<call.media[1], ext>>
    /\ call.final # call.media
    /\ ~Exists(call.renamed, call.media)
    /\ call.renamed[call.final] = call.before[call.media]

\* the rename step left everything in place
C16_NotRenamed == call.final = call.media /\ call.renamed = call.before

\* C16: at most one rename per run, of the Media file only, keeping its base
\* name.  The rename to .mkv happens if and only if a Media file exists, the
\* mode is not Audio, recode is disabled, the recode-target selector is mkv
\* and the Media extension is not already mkv (the rename is then tried, and
\* as any rename it is given up, the error swallowed, when the name
\* <base>.mkv is held by a sub-directory).  In Audio mode only the safe
\* rename to the desired audio extension is tried, never the one to mkv.
C16_OneRename ==
    call.kind = "cleanup" =>
        IF call.media = NoPath
        THEN call.renamed = call.before /\ ~call.safe_tried /\ ~call.mkv_tried
        ELSE
        LET wanted == /\ ui.format_var # "Audio"
                      /\ ~ui.recode_enabled /\ ui.recode_var = "mkv"
                      /\ Lower(call.media[2]) # "mkv"
            blocked == call.before[<<call.media[1], "mkv">>] = Dir
            desired == IF ui.audio_format_var = "aac" THEN "m4a" ELSE "webm"
        IN  /\ C16_OnlyMedia
            /\ call.final[1] = call.media[1]
            /\ call.mkv_tried <=> wanted
            /\ C16_RenamedTo("mkv") <=> (wanted /\ ~blocked)
            /\ call.safe_tried <=> ui.format_var = "Audio"
            /\ ui.format_var = "Audio" =>
                   (C16_NotRenamed \/ C16_RenamedTo(desired))
            /\ ui.format_var # "Audio" =>
                   (C16_NotRenamed \/ C16_RenamedTo("mkv"))

\* 720p, recode unticked, selector mkv: T.mp4 becomes T.mkv over a stale
\* T.mkv
C16_Witness ==
    /\ call.kind = "cleanup"
    /\ ui.format_var = "720p" /\ ~ui.recode_enabled /\ ui.recode_var = "mkv"
    /\ call.media = <<"T", "mp4">>
    /\ call.before[<<"T", "mkv">>] = "opus" /\ call.before[<<"T", "mp4">>] = "aac"
    /\ call.final = <<"T", "mkv">>
    /\ fs[<<"T", "mkv">>] = "aac" /\ ~Exists(fs, <<"T", "mp4">>)

\* Audio mode with recode unticked and the selector on mkv: no rename to mkv
C16_WitnessAudio ==
    /\ call.kind = "cleanup"
    /\ ui.format_var = "Audio" /\ ~ui.recode_enabled /\ ui.recode_var = "mkv"
    /\ ui.audio_format_var = "aac"
    /\ call.media = <<"T", "mp4">> /\ call.before[<<"T", "mp4">>] = "aac"
    /\ call.final = <<"T", "m4a">>
    /\ ~call.mkv_tried

(***************************************************************************)
(* Properties of the verdict on a run (Spec)                               *)
(***************************************************************************)
\* a launched URL is launched once: the worker is past it as soon as its
\* verdict is made, and each process belongs to one URL
C17_NoRetry ==
    /\ \A w \in 1..Len(workers) : \A j \in 1..workers[w].n :
           workers[w].runs[j].outcome # "none" => workers[w].i > j
    /\ \A w1, w2 \in 1..Len(workers) :
           \A j1 \in 1..workers[w1].n, j2 \in 1..workers[w2].n :
               (/\ workers[w1].runs[j1].pid # NoProc
                /\ workers[w1].runs[j1].pid = workers[w2].runs[j2].pid)
               => (w1 = w2 /\ j1 = j2)

\* C17: for every launched URL the run is reported as a tool failure exactly
\* when its process's exit code is neither 0 nor 1 or an output line carried
\* an error marker, and otherwise counts as completed; the URL is not
\* launched again and the worker goes on to the next URL.
C17_AsStated ==
    /\ C17_NoRetry
    /\ \A w \in 1..Len(workers) : \A j \in 1..workers[w].n :
           LET run == workers[w].runs[j]
           IN  run.outcome # "none" =>
                   (run.outcome = "failed" <=>
                       (run.marked \/ run.exit_seen \notin {0, 1, NoCode}))

(***************************************************************************)
(* Cancellation (SpecRun) and the settings of a run (SpecUi)               *)
(***************************************************************************)
\* stop was requested while the j-th URL of worker w was launched or streamed
C14_Stopped(w, j) ==
    /\ w \in 1..Len(workers) /\ j \in 1..workers[w].n
    /\ workers[w].runs[j].stopped

\* the process of that URL, if one was spawned, runs no more; the worker has
\* finished and the controls are enabled again
C14_Settled(w, j) ==
    /\ C14_Stopped(w, j)
    /\ ~Alive(procs, workers[w].runs[j].pid)
    /\ workers[w].pc = "done"
    /\ controls_enabled

\* C14: whenever stop is requested while a URL is in flight, its process is
\* eventually killed and the worker eventually finishes and re-enables the
\* controls, under fair scheduling of the worker and UI threads alone.
C14_AsStated ==
    \A w \in 1..MaxStarts : \A j \in 1..MaxQueue :
        C14_Stopped(w, j) ~> C14_Settled(w, j)

\* C15: for each queue URL, the settings cleanup_and_rename acts on (mode,
\* audio format, recode enabled, recode target, output directory) are the
\* values the URL's command was built from.
C15_AsStated ==
    \A w \in 1..Len(workers) : \A j \in 1..workers[w].n :
        workers[w].runs[j].cleanups > 0 =>
            workers[w].runs[j].cleaned = workers[w].runs[j].built

\* the mode, which the disabled format box protects, is the one setting that
\* stays what it was when the command was built
C15_ModeKept ==
    \A w \in 1..Len(workers) : \A j \in 1..workers[w].n :
        workers[w].runs[j].cleanups > 0 =>
            workers[w].runs[j].cleaned.mode = workers[w].runs[j].built.mode

(***************************************************************************)
(* Properties of generate_cookies (SpecCookies)                            *)
(***************************************************************************)
\* the first extraction ran and its output carries the secretstorage mark
C18_Signature ==
    /\ call.kind = "cookies" /\ Len(call.runs) >= 1
    /\ ~call.runs[1].out.raised /\ call.runs[1].out.signature

\* the k-th extraction was made and succeeded: exit code 0, target file there
C18_Succeeded(k) ==
    /\ k <= Len(call.runs)
    /\ ~call.runs[k].out.raised
    /\ call.runs[k].out.returncode = 0 /\ call.runs[k].out.target_exists

C18_Remediation == \E k \in 1..Len(call.boxes) : call.boxes[k] = "remediation"

\* at most two extractions per call, and the cookie-file setting changes
\* only to the target of an extraction that succeeded
C18_Bounded ==
    call.kind = "cookies" =>
        /\ Len(call.runs) <= 2
        /\ call.set => (ui.cookie_file_var = call.target /\ \E k \in 1..2 : C18_Succeeded(k))
        /\ ~call.set => ui.cookie_file_var = call.file_before

\* C18 as stated: on the signature, exactly one retry against firefox is
\* made before the remediation message; the remediation message is shown
\* only after the fallback attempt did not succeed; never more than two
\* extractions; the cookie-file setting is updated only on success.
C18_AsStated ==
    /\ C18_Bounded
    /\ C18_Signature =>
           (Len(call.runs) = 2 /\ call.runs[2].browser = "firefox")
    /\ (call.kind = "cookies" /\ C18_Remediation) =>
           (Len(call.runs) = 2 /\ ~C18_Succeeded(2))

\* C18 amended: on the signature, when the browser asked (firefox when
\* unset) is neither firefox nor mozilla, exactly one retry against firefox
\* is made and the remediation message is shown exactly when that retry did
\* not succeed; when the browser is firefox or mozilla no retry is made and
\* the remediation message is shown at once.  Without the signature there
\* is neither retry nor remediation message.  Never more than two
\* extractions; the cookie-file setting is updated only on success.
C18_FallbackOnce ==
    /\ C18_Bounded
    /\ C18_Signature =>
           IF call.browser \in {"firefox", "Firefox", "mozilla"}
           THEN Len(call.runs) = 1 /\ C18_Remediation /\ ~call.set
           ELSE /\ Len(call.runs) = 2 /\ call.runs[2].browser = "firefox"
                /\ C18_Remediation <=> ~C18_Succeeded(2)
                /\ call.set <=> C18_Succeeded(2)
    /\ (call.kind = "cookies" /\ ~C18_Signature) =>
           (Len(call.runs) <= 1 /\ ~C18_Remediation)

\* chrome, the signature, the retry against firefox fails too: remediation
C18_Witness ==
    /\ C18_Signature /\ call.browser = "chrome"
    /\ Len(call.runs) = 2 /\ call.runs[2].browser = "firefox"
    /\ ~C18_Succeeded(2)
    /\ call.boxes = <<"remediation">> /\ ~call.set

\* chrome, the signature, the retry against firefox succeeds: the setting
\* becomes the target
C18_WitnessFallback ==
    /\ C18_Signature /\ call.browser = "chrome"
    /\ C18_Succeeded(2)
    /\ call.boxes = <<"generated_fallback">>
    /\ call.file_before = "" /\ ui.cookie_file_var = COOKIE_FILE

====
